---------------------------- MODULE Spec2Model ----------------------------
(***************************************************************************)
(* Model of controllers/utils.go of the cluster-backup-operator:           *)
(*   - the collection helpers find, findSuffix, findValue, appendUnique,   *)
(*   - getValidKsRestoreName,                                              *)
(*   - isValidStorageLocationDefined,                                      *)
(*   - getGenericCRDFromAPIGroups (one action per external call and per    *)
(*     loop step),                                                         *)
(*   - getHubIdentification (one action per external call and per map      *)
(*     entry visited).                                                     *)
(* Go strings are sequences of one-character strings, so that prefixes,    *)
(* suffixes, truncation and lower-casing are computed, not assumed.        *)
(***************************************************************************)
EXTENDS Integers, Sequences, FiniteSets, TLC

VARIABLES
    \* ---- getGenericCRDFromAPIGroups ----
    pc,                 \* position in the call: idle, start, versions, resources, done
    excludedResources,  \* veleroBackup.Spec.ExcludedResources
    groupList,          \* what dc.ServerGroups() returned
    gi,                 \* index of the group the outer loop is at
    vi,                 \* index of the version the middle loop is at
    resourceList,       \* resourceList.APIResources of the current group-version
    ri,                 \* index of the resource the inner loop is at
    resources,          \* the accumulated result
    err,                \* the returned error ("nil" for nil)
    ctxCancelled,       \* ctx.Done() is closed
    listed,             \* history: <<group name, kind>> of every resource a successful fetch listed
    nFetches,           \* history: number of ServerResourcesForGroupVersion calls issued
    nFailed,            \* history: number of those calls that returned an error
    keptAtFailure,      \* history: the result as it was at the last failed fetch
    \* ---- getHubIdentification ----
    hubPc,              \* position in the call: idle, start, resource, list, spec, iterate, done, panic
    mapping,            \* what mapper.RESTMapping returned: unset, ok, failed
    items,              \* what dr.List returned: [err, absent, Items]
    specInfo,           \* items.Items[0].Object["spec"]
    unvisited,          \* keys of the spec map that MapRange has not yielded yet
    uid,                \* the identity being returned
    hubErr,             \* the returned error ("nil" for nil)
    \* ---- pure functions: inputs, position and result ----
    fnPc,               \* idle, call, once, done
    slice, value,       \* appendUnique's arguments (slice is replaced by each result)
    slice0,             \* the slice appendUnique was first called with
    clusterRestoreName, backupName, restoreName,
    veleroStorageLocations, isValid, veleroNamespace

discVars == <<pc, excludedResources, groupList, gi, vi, resourceList, ri, resources, err,
              ctxCancelled, listed, nFetches, nFailed, keptAtFailure>>
hubVars == <<hubPc, mapping, items, specInfo, unvisited, uid, hubErr>>
fnVars == <<fnPc, slice, value, slice0, clusterRestoreName, backupName, restoreName,
            veleroStorageLocations, isValid, veleroNamespace>>
vars == <<discVars, hubVars, fnVars>>

-----------------------------------------------------------------------------
(* Bounds of the model *)

MaxGroups == 2          \* groups in the group list
MaxVersions == 2        \* versions of one group
MaxSliceLen == 3        \* length of appendUnique's input slice
MaxLocations == 2       \* storage locations in the list
MaxOwnerRefs == 2       \* owner references of one storage location
MaxDelta == 2           \* name lengths are taken within MaxDelta of 0, 126 and 252
MaxItems == 2           \* items of the ClusterVersion listing

-----------------------------------------------------------------------------
(* Strings *)

Range(s) == {s[i] : i \in 1..Len(s)}

\* strings.HasSuffix(val, item)
HasSuffix(val, item) ==
    /\ Len(item) <= Len(val)
    /\ SubSeq(val, Len(val) - Len(item) + 1, Len(val)) = item

IsPrefix(p, s) == Len(p) <= Len(s) /\ SubSeq(s, 1, Len(p)) = p

LowerChar(c) == CASE c = "P" -> "p" [] c = "Q" -> "q" [] OTHER -> c

\* strings.ToLower
ToLower(s) == [i \in 1..Len(s) |-> LowerChar(s[i])]

-----------------------------------------------------------------------------
(* Collection utilities *)

RECURSIVE findSuffixFrom(_, _, _)
findSuffixFrom(s, val, i) ==
    IF i > Len(s) THEN <<-1, FALSE>>
    ELSE IF HasSuffix(val, s[i]) THEN <<i - 1, TRUE>>
    ELSE findSuffixFrom(s, val, i + 1)

\* findSuffix: the first element that val ends with (0-based index, found)
findSuffix(s, val) == findSuffixFrom(s, val, 1)

RECURSIVE findFrom(_, _, _)
findFrom(s, val, i) ==
    IF i > Len(s) THEN <<-1, FALSE>>
    ELSE IF s[i] = val THEN <<i - 1, TRUE>>
    ELSE findFrom(s, val, i + 1)

\* find: the first element equal to val (0-based index, found)
find(s, val) == findFrom(s, val, 1)

\* a findValue that matches exclusion entries as suffixes
findValueBySuffix(s, val) == findSuffix(s, val)[2]

findValue(s, val) == find(s, val)[2]

\* an appendUnique that does not look for the value first
appendAlways(s, val) == Append(s, val)

appendUnique(s, val) == IF ~find(s, val)[2] THEN Append(s, val) ELSE s

-----------------------------------------------------------------------------
(* getGenericCRDFromAPIGroups *)

Dot == <<".">>

\* group names the catalog may hold; <<>> is the core group
GroupNames == {<<>>, <<"g">>}

SeqsUpTo(S, n) == UNION {[1..k -> S] : k \in 0..n}

\* what a successful, non-absent ServerResourcesForGroupVersion may list
ResourceLists ==
    {<<>>, << <<"P">> >>, << <<"p">>, <<"Q">> >>, << <<"Q">>, <<"P">> >>}

\* the exclusion lists a backup may carry: a bare kind, a full name, entries
\* that are only a suffix of a name, an upper-case kind
ExclusionLists ==
    {<<>>,
     << <<"p">> >>,
     << <<"p", ".", "g">> >>,
     << <<"g">> >>,
     << <<"P">>, <<".", "g">> >>}

APIGroups == [Name : GroupNames, Versions : {[i \in 1..n |-> i] : n \in 0..MaxVersions}]

\* groupList before dc.ServerGroups() has returned
NoGroupList == [failed |-> FALSE, absent |-> TRUE, Groups |-> <<>>]

\* the loop position at or after (g, v) that names a version to fetch, or
\* (Len + 1, 1) when the two range loops are over
RECURSIVE LoopPosition(_, _, _)
LoopPosition(groups, g, v) ==
    IF g > Len(groups) THEN <<Len(groups) + 1, 1>>
    ELSE IF v > Len(groups[g].Versions) THEN LoopPosition(groups, g + 1, 1)
    ELSE <<g, v>>

\* the number of group-versions the two range loops visit
RECURSIVE VersionCount(_)
VersionCount(groups) ==
    IF groups = <<>> THEN 0
    ELSE Len(Head(groups).Versions) + VersionCount(Tail(groups))

DiscIdle ==
    /\ pc = "idle"
    /\ excludedResources = <<>>
    /\ groupList = NoGroupList
    /\ gi = 1 /\ vi = 1 /\ ri = 1
    /\ resourceList = <<>>
    /\ resources = <<>>
    /\ err = "nil"
    /\ ctxCancelled = FALSE
    /\ listed = {}
    /\ nFetches = 0 /\ nFailed = 0
    /\ keptAtFailure = <<>>

\* the call is entered: resources := []string{} (line 158)
DiscInit ==
    /\ pc = "start"
    /\ excludedResources \in ExclusionLists
    /\ groupList = NoGroupList
    /\ gi = 1 /\ vi = 1 /\ ri = 1
    /\ resourceList = <<>>
    /\ resources = <<>>
    /\ err = "nil"
    /\ ctxCancelled = FALSE
    /\ listed = {}
    /\ nFetches = 0 /\ nFailed = 0
    /\ keptAtFailure = <<>>

history == <<listed, nFetches, nFailed, keptAtFailure>>

\* a failed group-list fetch that is ignored
ServerGroupsFailedIgnored ==
    /\ pc = "start"
    /\ groupList' = [failed |-> TRUE, absent |-> TRUE, Groups |-> <<>>]
    /\ pc' = "done"
    /\ err' = "nil"
    /\ UNCHANGED <<excludedResources, gi, vi, ri, resourceList, resources, ctxCancelled,
                   history>>
    /\ UNCHANGED <<hubVars, fnVars>>

\* dc.ServerGroups() returns an error: return resources, error (lines 160-163)
ServerGroupsFailed ==
    /\ pc = "start"
    /\ groupList' = [failed |-> TRUE, absent |-> TRUE, Groups |-> <<>>]
    /\ pc' = "done"
    /\ err' = "failed to get server groups"
    /\ UNCHANGED <<excludedResources, gi, vi, ri, resourceList, resources, ctxCancelled,
                   history>>
    /\ UNCHANGED <<hubVars, fnVars>>

\* dc.ServerGroups() returns nil, nil: return resources, nil (lines 164-166)
ServerGroupsAbsent ==
    /\ pc = "start"
    /\ groupList' = [failed |-> FALSE, absent |-> TRUE, Groups |-> <<>>]
    /\ pc' = "done"
    /\ err' = "nil"
    /\ UNCHANGED <<excludedResources, gi, vi, ri, resourceList, resources, ctxCancelled,
                   history>>
    /\ UNCHANGED <<hubVars, fnVars>>

\* dc.ServerGroups() returns a group list: enter the range loops (line 167)
ServerGroupsListed ==
    /\ pc = "start"
    /\ \E g \in SeqsUpTo(APIGroups, MaxGroups) :
          /\ groupList' = [failed |-> FALSE, absent |-> FALSE, Groups |-> g]
          /\ gi' = LoopPosition(g, 1, 1)[1]
          /\ vi' = LoopPosition(g, 1, 1)[2]
    /\ pc' = "versions"
    /\ UNCHANGED <<excludedResources, ri, resourceList, resources, err, ctxCancelled,
                   history>>
    /\ UNCHANGED <<hubVars, fnVars>>

AtVersion == pc = "versions" /\ gi <= Len(groupList.Groups)

NextVersion ==
    /\ gi' = LoopPosition(groupList.Groups, gi, vi + 1)[1]
    /\ vi' = LoopPosition(groupList.Groups, gi, vi + 1)[2]

\* a failed resource fetch that ends the call with the error
FetchFailedAborts ==
    /\ AtVersion
    /\ nFetches' = nFetches + 1
    /\ nFailed' = nFailed + 1
    /\ keptAtFailure' = resources
    /\ pc' = "done"
    /\ err' = "failed to get server resources"
    /\ UNCHANGED <<excludedResources, groupList, gi, vi, ri, resourceList, resources,
                   ctxCancelled, listed>>
    /\ UNCHANGED <<hubVars, fnVars>>

\* ServerResourcesForGroupVersion returns an error: log, continue (lines 170-174)
FetchFailed ==
    /\ AtVersion
    /\ nFetches' = nFetches + 1
    /\ nFailed' = nFailed + 1
    /\ keptAtFailure' = resources
    /\ NextVersion
    /\ UNCHANGED <<pc, excludedResources, groupList, ri, resourceList, resources, err,
                   ctxCancelled, listed>>
    /\ UNCHANGED <<hubVars, fnVars>>

\* ServerResourcesForGroupVersion returns nil, nil: continue (lines 175-178)
FetchAbsent ==
    /\ AtVersion
    /\ nFetches' = nFetches + 1
    /\ NextVersion
    /\ UNCHANGED <<pc, excludedResources, groupList, ri, resourceList, resources, err,
                   ctxCancelled, listed, nFailed, keptAtFailure>>
    /\ UNCHANGED <<hubVars, fnVars>>

\* ServerResourcesForGroupVersion returns a list: skip it when the group has
\* no name, else enter the loop over its resources (lines 170-179)
FetchListed ==
    /\ AtVersion
    /\ nFetches' = nFetches + 1
    /\ \E rl \in ResourceLists :
          /\ listed' = listed \cup {<<groupList.Groups[gi].Name, rl[i]>> : i \in 1..Len(rl)}
          /\ IF groupList.Groups[gi].Name = <<>>
             THEN NextVersion /\ UNCHANGED <<pc, resourceList, ri>>
             ELSE resourceList' = rl /\ ri' = 1 /\ pc' = "resources"
                  /\ UNCHANGED <<gi, vi>>
    /\ UNCHANGED <<excludedResources, groupList, resources, err, ctxCancelled, nFailed,
                   keptAtFailure>>
    /\ UNCHANGED <<hubVars, fnVars>>

\* resourceKind + "." + group.Name (lines 181-182)
ResourceName(kind, group) == ToLower(kind) \o Dot \o group

\* one iteration of the loop over resourceList.APIResources (lines 179-188)
Admit(res, excluded, kind, group) ==
    IF /\ ~findValue(excluded, ResourceName(kind, group))
       /\ ~findValue(excluded, ToLower(kind))
    THEN appendUnique(res, ResourceName(kind, group))
    ELSE res

ProcessResource ==
    /\ pc = "resources"
    /\ ri <= Len(resourceList)
    /\ resources' = Admit(resources, excludedResources, resourceList[ri],
                          groupList.Groups[gi].Name)
    /\ ri' = ri + 1
    /\ UNCHANGED <<pc, excludedResources, groupList, gi, vi, resourceList, err,
                   ctxCancelled, history>>
    /\ UNCHANGED <<hubVars, fnVars>>

\* the loop over the resources is over: next version (lines 168, 188-189)
EndResources ==
    /\ pc = "resources"
    /\ ri > Len(resourceList)
    /\ pc' = "versions"
    /\ NextVersion
    /\ UNCHANGED <<excludedResources, groupList, ri, resourceList, resources, err,
                   ctxCancelled, history>>
    /\ UNCHANGED <<hubVars, fnVars>>

\* both range loops are over: return resources, nil (line 192)
ReturnResources ==
    /\ pc = "versions"
    /\ gi > Len(groupList.Groups)
    /\ pc' = "done"
    /\ err' = "nil"
    /\ UNCHANGED <<excludedResources, groupList, gi, vi, ri, resourceList, resources,
                   ctxCancelled, history>>
    /\ UNCHANGED <<hubVars, fnVars>>

\* a group-version is still to be fetched
FetchPending ==
    \/ AtVersion
    \/ /\ pc = "resources"
       /\ LoopPosition(groupList.Groups, gi, vi + 1)[1] <= Len(groupList.Groups)

\* the caller cancels ctx after the group list was fetched and before the
\* last group-version is.  ctx is read for its logger only (line 156);
\* neither discovery call takes it (lines 160, 170), so their outcomes stay
\* whatever the discovery client gives.
CancelContext ==
    /\ FetchPending
    /\ ~ctxCancelled
    /\ ctxCancelled' = TRUE
    /\ UNCHANGED <<pc, excludedResources, groupList, gi, vi, ri, resourceList, resources,
                   err, history>>
    /\ UNCHANGED <<hubVars, fnVars>>

-----------------------------------------------------------------------------
(* getHubIdentification *)

StringValue(v) == [type |-> "string", val |-> v]

\* values a key of the untyped spec map may hold: strings, a number, null
\* (val is the value as printed)
SpecValues ==
    {StringValue("id-1"), StringValue("id-2"), [type |-> "int", val |-> "42"],
     [type |-> "nil", val |-> ""]}

SpecKeys == {"clusterID", "channel"}

\* Object["spec"]: absent (nil), something that is not a map, or a map
SpecInfos ==
    {[kind |-> "absent", entries |-> <<>>], [kind |-> "scalar", entries |-> <<>>]}
    \cup {[kind |-> "map", entries |-> m] : m \in UNION {[K -> SpecValues] : K \in SUBSET SpecKeys}}

\* an item of the listing: Object is nil, or holds spec
ListItems ==
    {[Object |-> FALSE, spec |-> [kind |-> "absent", entries |-> <<>>]]}
    \cup {[Object |-> TRUE, spec |-> sp] : sp \in SpecInfos}

NoItems == [failed |-> FALSE, absent |-> TRUE, Items |-> <<>>]

NoSpec == [kind |-> "absent", entries |-> <<>>]

HubIdle ==
    /\ hubPc = "idle"
    /\ mapping = "unset"
    /\ items = NoItems
    /\ specInfo = NoSpec
    /\ unvisited = {}
    /\ uid = "unknown"
    /\ hubErr = "nil"

\* the call is entered: uid := "unknown" (line 205)
HubInit ==
    /\ hubPc = "start"
    /\ mapping = "unset"
    /\ items = NoItems
    /\ specInfo = NoSpec
    /\ unvisited = {}
    /\ uid = "unknown"
    /\ hubErr = "nil"

\* mapper.RESTMapping fails: return uid, err (lines 211-216)
RESTMappingFailed ==
    /\ hubPc = "start"
    /\ mapping' = "failed"
    /\ hubPc' = "done"
    /\ hubErr' = "mapping error"
    /\ UNCHANGED <<items, specInfo, unvisited, uid>>
    /\ UNCHANGED <<discVars, fnVars>>

\* mapper.RESTMapping succeeds (line 211)
RESTMappingOk ==
    /\ hubPc = "start"
    /\ mapping' = "ok"
    /\ hubPc' = "resource"
    /\ UNCHANGED <<items, specInfo, unvisited, uid, hubErr>>
    /\ UNCHANGED <<discVars, fnVars>>

\* dyn.Resource gives nil: return uid, nil (lines 217-220)
ResourceAbsent ==
    /\ hubPc = "resource"
    /\ hubPc' = "done"
    /\ UNCHANGED <<mapping, items, specInfo, unvisited, uid, hubErr>>
    /\ UNCHANGED <<discVars, fnVars>>

\* dyn.Resource gives a client (line 217)
ResourceOk ==
    /\ hubPc = "resource"
    /\ hubPc' = "list"
    /\ UNCHANGED <<mapping, items, specInfo, unvisited, uid, hubErr>>
    /\ UNCHANGED <<discVars, fnVars>>

\* dr.List fails: return uid, err (lines 221-225)
ListFailed ==
    /\ hubPc = "list"
    /\ items' = [failed |-> TRUE, absent |-> TRUE, Items |-> <<>>]
    /\ hubPc' = "done"
    /\ hubErr' = "list error"
    /\ UNCHANGED <<mapping, specInfo, unvisited, uid>>
    /\ UNCHANGED <<discVars, fnVars>>

\* dr.List succeeds: with items nil, no item or a first item whose Object is
\* nil return uid, nil; else read Object["spec"] of the first item
\* (lines 221-228)
ListOk ==
    /\ hubPc = "list"
    /\ \E absent \in BOOLEAN : \E its \in SeqsUpTo(ListItems, MaxItems) :
          /\ absent => its = <<>>
          /\ items' = [failed |-> FALSE, absent |-> absent, Items |-> its]
          /\ IF absent \/ Len(its) = 0 \/ ~its[1].Object
             THEN hubPc' = "done" /\ UNCHANGED specInfo
             ELSE hubPc' = "spec" /\ specInfo' = its[1].spec
    /\ UNCHANGED <<mapping, unvisited, uid, hubErr>>
    /\ UNCHANGED <<discVars, fnVars>>

\* specInfo is nil: return uid, nil (lines 229, 240)
SpecAbsent ==
    /\ hubPc = "spec"
    /\ specInfo.kind = "absent"
    /\ hubPc' = "done"
    /\ UNCHANGED <<mapping, items, specInfo, unvisited, uid, hubErr>>
    /\ UNCHANGED <<discVars, fnVars>>

\* reflect.ValueOf(specInfo).MapRange() on a value that is not a map
\* panics (line 230)
MapRangePanics ==
    /\ hubPc = "spec"
    /\ specInfo.kind = "scalar"
    /\ hubPc' = "panic"
    /\ UNCHANGED <<mapping, items, specInfo, unvisited, uid, hubErr>>
    /\ UNCHANGED <<discVars, fnVars>>

\* reflect.ValueOf(specInfo).MapRange() on a map (line 230)
MapRange ==
    /\ hubPc = "spec"
    /\ specInfo.kind = "map"
    /\ hubPc' = "iterate"
    /\ unvisited' = DOMAIN specInfo.entries
    /\ UNCHANGED <<mapping, items, specInfo, uid, hubErr>>
    /\ UNCHANGED <<discVars, fnVars>>

\* iter.Next() yields a key, in any order; for "clusterID" the value is
\* asserted to be a string, which panics on any other value
\* (lines 231-238)
IterNext ==
    /\ hubPc = "iterate"
    /\ \E key \in unvisited :
          /\ unvisited' = unvisited \ {key}
          /\ IF key = "clusterID"
             THEN IF specInfo.entries[key].type = "string"
                  THEN uid' = specInfo.entries[key].val /\ UNCHANGED hubPc
                  ELSE hubPc' = "panic" /\ UNCHANGED uid
             ELSE UNCHANGED <<hubPc, uid>>
    /\ UNCHANGED <<mapping, items, specInfo, hubErr>>
    /\ UNCHANGED <<discVars, fnVars>>

\* iter.Next() is false: return uid, nil (lines 231, 240)
IterDone ==
    /\ hubPc = "iterate"
    /\ unvisited = {}
    /\ hubPc' = "done"
    /\ UNCHANGED <<mapping, items, specInfo, unvisited, uid, hubErr>>
    /\ UNCHANGED <<discVars, fnVars>>

-----------------------------------------------------------------------------
(* Pure functions: appendUnique, getValidKsRestoreName,                     *)
(* isValidStorageLocationDefined                                            *)

FnIdle ==
    /\ fnPc = "idle"
    /\ slice = <<>> /\ value = "" /\ slice0 = <<>>
    /\ clusterRestoreName = <<>> /\ backupName = <<>> /\ restoreName = <<>>
    /\ veleroStorageLocations = <<>> /\ isValid = FALSE /\ veleroNamespace = ""

\* ---- appendUnique ----

SliceValues == {"a", "b", "c"}

AppendInit ==
    /\ fnPc = "call"
    /\ slice0 \in SeqsUpTo(SliceValues, MaxSliceLen)
    /\ slice = slice0
    /\ value \in SliceValues
    /\ clusterRestoreName = <<>> /\ backupName = <<>> /\ restoreName = <<>>
    /\ veleroStorageLocations = <<>> /\ isValid = FALSE /\ veleroNamespace = ""

\* slice = appendUnique(slice, value), a first time
AppendOnce ==
    /\ fnPc = "call"
    /\ slice' = appendUnique(slice, value)
    /\ fnPc' = "once"
    /\ UNCHANGED <<value, slice0, clusterRestoreName, backupName, restoreName,
                   veleroStorageLocations, isValid, veleroNamespace>>
    /\ UNCHANGED <<discVars, hubVars>>

\* slice = appendUnique(slice, value), a second time with the same value
AppendTwice ==
    /\ fnPc = "once"
    /\ slice' = appendUnique(slice, value)
    /\ fnPc' = "done"
    /\ UNCHANGED <<value, slice0, clusterRestoreName, backupName, restoreName,
                   veleroStorageLocations, isValid, veleroNamespace>>
    /\ UNCHANGED <<discVars, hubVars>>

\* ---- getValidKsRestoreName ----

\* the length names are cut to (lines 86-87)
MaxNameLen == 252

\* a restore name that is cut to the 253 characters Kubernetes allows
getValidKsRestoreNameCutAt253(clusterRestore, backup) ==
    LET fullName == clusterRestore \o <<"-">> \o backup
    IN  IF Len(fullName) > MaxNameLen + 1 THEN SubSeq(fullName, 1, MaxNameLen + 1)
        ELSE fullName

getValidKsRestoreName(clusterRestore, backup) ==
    LET fullName == clusterRestore \o <<"-">> \o backup
    IN  IF Len(fullName) > MaxNameLen THEN SubSeq(fullName, 1, MaxNameLen)
        ELSE fullName

\* a name of n characters: c, with a "-" at every fifth place
Name(n, c) == [i \in 1..n |-> IF i % 5 = 0 THEN "-" ELSE c]

\* lengths around 0, half the limit and the limit
NameLens ==
    (0..MaxDelta)
    \cup ((MaxNameLen \div 2) - MaxDelta .. (MaxNameLen \div 2) + MaxDelta)
    \cup (MaxNameLen - MaxDelta .. MaxNameLen + MaxDelta)

RestoreNameInit ==
    /\ fnPc = "call"
    /\ clusterRestoreName \in {Name(n, "r") : n \in NameLens}
    /\ backupName \in {Name(n, "b") : n \in NameLens}
    /\ restoreName = <<>>
    /\ slice = <<>> /\ value = "" /\ slice0 = <<>>
    /\ veleroStorageLocations = <<>> /\ isValid = FALSE /\ veleroNamespace = ""

RestoreNameCall ==
    /\ fnPc = "call"
    /\ restoreName' = getValidKsRestoreName(clusterRestoreName, backupName)
    /\ fnPc' = "done"
    /\ UNCHANGED <<slice, value, slice0, clusterRestoreName, backupName,
                   veleroStorageLocations, isValid, veleroNamespace>>
    /\ UNCHANGED <<discVars, hubVars>>

\* ---- isValidStorageLocationDefined ----

\* veleroapi.BackupStorageLocationPhaseAvailable
PhaseAvailable == "Available"

Phases == {PhaseAvailable, "Unavailable"}

Namespaces == {"ns1", "ns2"}

OwnerReference == [Kind : {"", "BackupSchedule"}]

\* a storage location: OwnerReferences is nil (and then empty) or a slice
StorageLocations ==
    {[Namespace |-> ns, Phase |-> ph, OwnerReferencesNil |-> TRUE, OwnerReferences |-> <<>>] :
        ns \in Namespaces, ph \in Phases}
    \cup
    {[Namespace |-> ns, Phase |-> ph, OwnerReferencesNil |-> FALSE, OwnerReferences |-> refs] :
        ns \in Namespaces, ph \in Phases, refs \in SeqsUpTo(OwnerReference, MaxOwnerRefs)}

\* the loop over the owner references (lines 121-127)
RECURSIVE hasOwnerKindFrom(_, _)
hasOwnerKindFrom(refs, j) ==
    IF j > Len(refs) THEN FALSE
    ELSE IF refs[j].Kind # "" THEN TRUE
    ELSE hasOwnerKindFrom(refs, j + 1)

\* a scan that goes on after a valid location and so keeps the last one
RECURSIVE scanLocationsNoBreak(_, _, _)
scanLocationsNoBreak(locs, i, found) ==
    IF i > Len(locs) THEN found
    ELSE IF /\ ~locs[i].OwnerReferencesNil
            /\ locs[i].Phase = PhaseAvailable
            /\ hasOwnerKindFrom(locs[i].OwnerReferences, 1)
         THEN scanLocationsNoBreak(locs, i + 1, <<TRUE, locs[i].Namespace>>)
         ELSE scanLocationsNoBreak(locs, i + 1, found)

\* the loop over the storage locations (lines 118-132)
RECURSIVE scanLocations(_, _)
scanLocations(locs, i) ==
    IF i > Len(locs) THEN <<FALSE, "">>
    ELSE IF /\ ~locs[i].OwnerReferencesNil
            /\ locs[i].Phase = PhaseAvailable
            /\ hasOwnerKindFrom(locs[i].OwnerReferences, 1)
         THEN <<TRUE, locs[i].Namespace>>
         ELSE scanLocations(locs, i + 1)

isValidStorageLocationDefinedNoBreak(locs) == scanLocationsNoBreak(locs, 1, <<FALSE, "">>)

isValidStorageLocationDefined(locs) == scanLocations(locs, 1)

StorageInit ==
    /\ fnPc = "call"
    /\ veleroStorageLocations \in SeqsUpTo(StorageLocations, MaxLocations)
    /\ isValid = FALSE /\ veleroNamespace = ""
    /\ slice = <<>> /\ value = "" /\ slice0 = <<>>
    /\ clusterRestoreName = <<>> /\ backupName = <<>> /\ restoreName = <<>>

StorageCall ==
    /\ fnPc = "call"
    /\ isValid' = isValidStorageLocationDefined(veleroStorageLocations)[1]
    /\ veleroNamespace' = isValidStorageLocationDefined(veleroStorageLocations)[2]
    /\ fnPc' = "done"
    /\ UNCHANGED <<slice, value, slice0, clusterRestoreName, backupName, restoreName,
                   veleroStorageLocations>>
    /\ UNCHANGED <<discVars, hubVars>>

-----------------------------------------------------------------------------
(* Specifications of getGenericCRDFromAPIGroups *)

InitDiscovery == DiscInit /\ HubIdle /\ FnIdle

NextDiscovery ==
    \/ ServerGroupsFailed
    \/ ServerGroupsAbsent
    \/ ServerGroupsListed
    \/ FetchFailed
    \/ FetchAbsent
    \/ FetchListed
    \/ ProcessResource
    \/ EndResources
    \/ ReturnResources

\* one call of getGenericCRDFromAPIGroups
SpecDiscovery == InitDiscovery /\ [][NextDiscovery]_vars

\* one call of getGenericCRDFromAPIGroups whose ctx the caller may cancel
NextDiscoveryCtx ==
    \/ NextDiscovery
    \/ CancelContext

SpecDiscoveryCtx == InitDiscovery /\ [][NextDiscoveryCtx]_vars

-----------------------------------------------------------------------------
(* Claims about getGenericCRDFromAPIGroups *)

GroupListFetched == ~groupList.failed

\* the names the claim describes: built from a listed resource of a named
\* group, with neither the name nor the bare kind equal to an exclusion entry
Excluded == Range(excludedResources)

ExpectedNames ==
    {ToLower(e[2]) \o Dot \o e[1] :
        e \in {x \in listed : /\ x[1] # <<>>
                              /\ (ToLower(x[2]) \o Dot \o x[1]) \notin Excluded
                              /\ ToLower(x[2]) \notin Excluded}}

\* C1: when the group-list fetch succeeds, the returned list holds a name N
\* exactly when a successful, non-absent fetch of a version of a group G with
\* a non-empty name listed a kind K with N = lowercase(K) + "." + G, and
\* neither N nor lowercase(K) equals an exclusion entry.
C1_ResultCharacterised ==
    (pc = "done" /\ GroupListFetched) => Range(resources) = ExpectedNames

\* a call that returned a name although an exclusion entry is a proper suffix
\* of it, after the core group and an excluded kind were listed too
C1_Witness ==
    /\ pc = "done" /\ GroupListFetched
    /\ \E n \in Range(resources) : \E x \in Excluded : x # n /\ HasSuffix(n, x)
    /\ \E e \in listed : e[1] = <<>>

NoDuplicates(s) == \A i, j \in 1..Len(s) : s[i] = s[j] => i = j

\* C2: after every step of the traversal, and in the returned list, every
\* name occurs at most once in the accumulated result.
C2_NoDuplicateNames == NoDuplicates(resources)

\* the same kind was listed by two versions (one name, several admissions)
C2_Witness ==
    /\ pc = "done"
    /\ Len(resources) = 2
    /\ nFetches - nFailed >= 2
    /\ \E e \in listed : e[1] # <<>> /\ e[2] = <<"P">>
    /\ \E e \in listed : e[1] # <<>> /\ e[2] = <<"p">>

\* C3: when the group-list fetch succeeds the call returns no error whatever
\* fetches fail; a failed group-version is skipped and the traversal goes on
\* (every group-version is fetched), and what was admitted before a failure
\* is still in the result.
C3_PartialFailureTolerated ==
    /\ (pc = "done" /\ GroupListFetched) =>
          /\ err = "nil"
          /\ nFetches = VersionCount(groupList.Groups)
    /\ nFailed > 0 => IsPrefix(keptAtFailure, resources)

\* a call that returned after two fetches failed, the first after a name was
\* admitted, and one more name was admitted after a failure
C3_Witness ==
    /\ pc = "done" /\ GroupListFetched
    /\ nFailed >= 2
    /\ keptAtFailure # <<>>
    /\ Len(resources) > Len(keptAtFailure)

\* C4: when the group-list fetch fails the call returns at once with an
\* error and an empty result, and issues no group-version fetch.
C4_GroupListFailureFatal ==
    groupList.failed =>
        /\ pc = "done"
        /\ err # "nil"
        /\ resources = <<>>
        /\ nFetches = 0

C4_Witness == pc = "done" /\ groupList.failed /\ excludedResources # <<>>

\* C5: if ctx is cancelled during the traversal (after the group list was
\* fetched, before the last group-version fetch) the call returns an error,
\* never nil with a result.
C5_CancellationPropagated ==
    (pc = "done" /\ ctxCancelled) => err # "nil"

-----------------------------------------------------------------------------
(* Claims about getHubIdentification *)

InitHub == DiscIdle /\ HubInit /\ FnIdle

NextHub ==
    \/ RESTMappingFailed
    \/ RESTMappingOk
    \/ ResourceAbsent
    \/ ResourceOk
    \/ ListFailed
    \/ ListOk
    \/ SpecAbsent
    \/ MapRangePanics
    \/ MapRange
    \/ IterNext
    \/ IterDone

\* one call of getHubIdentification
SpecHub == InitHub /\ [][NextHub]_vars

HubEnded == hubPc \in {"done", "panic"}

\* the listing succeeded and its first item has a payload
FirstPayload == ~items.failed /\ ~items.absent /\ Len(items.Items) > 0 /\ items.Items[1].Object

FirstSpec == items.Items[1].spec

\* the first item's spec is a map with a string-valued clusterID
StringClusterID ==
    /\ FirstPayload
    /\ FirstSpec.kind = "map"
    /\ "clusterID" \in DOMAIN FirstSpec.entries
    /\ FirstSpec.entries["clusterID"].type = "string"

\* the first item's spec is not a map, or its clusterID is not a string
MalformedPayload ==
    /\ FirstPayload
    /\ \/ FirstSpec.kind = "scalar"
       \/ /\ FirstSpec.kind = "map"
          /\ "clusterID" \in DOMAIN FirstSpec.entries
          /\ FirstSpec.entries["clusterID"].type # "string"

\* C6: the call never crashes on the payload: when the first item's spec is
\* not a map, or holds a clusterID that is not a string, the call completes
\* and returns "unknown".
C6_NoCrashOnPayload ==
    (HubEnded /\ MalformedPayload) => (hubPc = "done" /\ uid = "unknown")

\* C7: every call ends by returning; the identity is the first item's
\* string-valued spec.clusterID when mapping and listing succeeded and the
\* listing is not empty, and "unknown" in every other outcome; the error is
\* non-nil exactly when the mapping or the listing failed.
C7_IdentityOutcomes ==
    HubEnded =>
        /\ hubPc = "done"
        /\ uid = IF StringClusterID THEN FirstSpec.entries["clusterID"].val ELSE "unknown"
        /\ (hubErr # "nil") <=> (mapping = "failed" \/ items.failed)

-----------------------------------------------------------------------------
(* Claims about the pure functions *)

InitAppendUnique == DiscIdle /\ HubIdle /\ AppendInit

NextAppendUnique ==
    \/ AppendOnce
    \/ AppendTwice

\* two calls of appendUnique with the same value
SpecAppendUnique == InitAppendUnique /\ [][NextAppendUnique]_vars

InitRestoreName == DiscIdle /\ HubIdle /\ RestoreNameInit

\* one call of getValidKsRestoreName
SpecRestoreName == InitRestoreName /\ [][RestoreNameCall]_vars

InitStorage == DiscIdle /\ HubIdle /\ StorageInit

\* one call of isValidStorageLocationDefined
SpecStorage == InitStorage /\ [][StorageCall]_vars

\* any one of the calls
Init == InitDiscovery \/ InitHub \/ InitAppendUnique \/ InitRestoreName \/ InitStorage

Next ==
    \/ NextDiscovery
    \/ CancelContext
    \/ NextHub
    \/ NextAppendUnique
    \/ RestoreNameCall
    \/ StorageCall

Spec == Init /\ [][Next]_vars

\* a storage location that is available and has an owner reference with a kind
Qualifies(l) ==
    /\ l.Phase = PhaseAvailable
    /\ \E j \in 1..Len(l.OwnerReferences) : l.OwnerReferences[j].Kind # ""

Qualifying == {i \in 1..Len(veleroStorageLocations) : Qualifies(veleroStorageLocations[i])}

\* C8: the result is (true, ns) exactly when some location is available and
\* has an owner reference with a non-empty kind, ns being the namespace of
\* the first such location in list order; otherwise it is (false, "").
C8_FirstValidLocation ==
    fnPc = "done" =>
        IF Qualifying = {}
        THEN ~isValid /\ veleroNamespace = ""
        ELSE /\ isValid
             /\ \E i \in Qualifying :
                   /\ \A k \in Qualifying : i <= k
                   /\ veleroNamespace = veleroStorageLocations[i].Namespace

\* two locations qualify, in different namespaces, after one that does not
C8_Witness ==
    /\ fnPc = "done" /\ isValid
    /\ \E i, k \in Qualifying :
          /\ i < k
          /\ veleroStorageLocations[i].Namespace # veleroStorageLocations[k].Namespace

FullName == clusterRestoreName \o <<"-">> \o backupName

\* C9: the result has at most 252 characters and is a prefix of
\* clusterRestoreName + "-" + backupName: all of it when that has at most 252
\* characters, and its first 252 characters otherwise.
C9_RestoreNameTruncated ==
    fnPc = "done" =>
        /\ Len(restoreName) <= 252
        /\ IsPrefix(restoreName, FullName)
        /\ Len(FullName) <= 252 => restoreName = FullName
        /\ Len(FullName) > 252 => Len(restoreName) = 252

\* a concatenation of exactly 253 characters was cut
C9_Witness == fnPc = "done" /\ Len(FullName) = 253 /\ Len(restoreName) = 252

Occurrences(s, v) == Cardinality({i \in 1..Len(s) : s[i] = v})

\* C10 as stated: for every sequence and value, after appendUnique was
\* applied twice with the value the sequence holds it exactly once.
C10_ExactlyOnce ==
    fnPc = "done" => Occurrences(slice, value) = 1

\* C10 as amended: after appendUnique was applied twice with the value, the
\* sequence holds it exactly once when the input held it at most once, and
\* as often as the input did otherwise; the second application changes
\* nothing and the input is a prefix of the result.
C10_OnceUnlessAlreadyRepeated ==
    /\ fnPc = "done" =>
          /\ Occurrences(slice, value) =
                IF Occurrences(slice0, value) <= 1 THEN 1 ELSE Occurrences(slice0, value)
          /\ slice = IF Occurrences(slice0, value) = 0 THEN Append(slice0, value) ELSE slice0
    /\ fnPc = "once" =>
          slice = IF Occurrences(slice0, value) = 0 THEN Append(slice0, value) ELSE slice0

\* appended once by the first application, left alone by the second
C10_Witness ==
    /\ fnPc = "done"
    /\ Occurrences(slice0, value) = 0
    /\ Len(slice0) = MaxSliceLen
    /\ Occurrences(slice, value) = 1

=============================================================================
